---- MODULE Spec2Model ----
(***************************************************************************)
(* Verification model of src/electron/src/menu/context.ts:                 *)
(*   - the renderer context-menu dispatcher (handleContextMenu and the     *)
(*     three module-level menus), specification SpecMenu;                  *)
(*   - the macOS packager (buildMacOSWrapper, manualMacOSSign),            *)
(*     specification SpecBuild.                                            *)
(* Strings the code takes apart (href, innerText, selection, copyContext)  *)
(* are sequences of tokens; " " is a whitespace token and "mailto:" the    *)
(* scheme prefix the regular expression /^mailto:/ looks for.              *)
(***************************************************************************)
EXTENDS Integers, Sequences, FiniteSets, TLC

VARIABLES
  copyContext,       \* let copyContext = ''                       (line 41)
  textMenu,          \* let textMenu: Menu, the items it was built from (line 39)
  textMenuTemplate,  \* const textMenuTemplate (a mutable array)  (line 55)
  imageMenu,         \* imageMenu.image / imageMenu.timestamp     (line 101)
  params,            \* the ContextMenuParams object last handed in by the host
  shown,             \* the menu on screen: the one the last call popped up
  event,             \* the event under dispatch, with what the call did to it
  pc,                \* build: position in buildMacOSWrapper / manualMacOSSign
  entry,             \* build: which exported function was called
  config,            \* build: signManually and macOSConfig's certificate names
  files,             \* build: the two manifest files on disk
  original,          \* build: the manifests' contents before the call
  locals,            \* build: originalPackageJson, defaultConfig, commonConfig
  error,             \* build: the error in flight / leaving the function
  calls,             \* build: external calls made so far, in order
  signIndex          \* build: loop index over filesToSign

menuVars == <<copyContext, textMenu, textMenuTemplate, imageMenu, params, shown, event>>
buildVars == <<pc, entry, config, files, original, locals, error, calls, signIndex>>
vars == <<menuVars, buildVars>>

Undefined == "undefined"
Null == "null"
Document == "document"
EmptyString == <<>>
WS == " "

(***************************************************************************)
(* Bounds                                                                  *)
(***************************************************************************)
MaxSuggestions == 2

(***************************************************************************)
(* The document the dispatcher runs against: a conversation view, listed   *)
(* in document order.  parentNode is a node id, Document, or Null for the  *)
(* root of a subtree that is not attached to the document.                 *)
(***************************************************************************)
El(id, nodeName, classList, parentNode) ==
  [id |-> id, nodeName |-> nodeName, classList |-> classList, parentNode |-> parentNode,
   src |-> Undefined, href |-> EmptyString, innerText |-> EmptyString, timestamp |-> Undefined]

Tree ==
  << El("body", "BODY", {}, Document),
     El("input-bar", "TEXTAREA", {}, "body"),
     [El("search", "INPUT", {"text"}, "body") EXCEPT !.innerText = <<"find">>],
     \* message A: time T1, an image, a text body with a code block and a mail link
     El("msgA", "DIV", {"message-body"}, "body"),
     [El("msgA.time", "TIME", {}, "msgA") EXCEPT !.timestamp = "T1"],
     [El("msgA.img", "IMG", {"image-element"}, "msgA") EXCEPT !.src = "https://x/y.png"],
     [El("msgA.text", "DIV", {"text"}, "msgA") EXCEPT !.innerText = <<WS, "hello", WS, "x=1", WS>>],
     [El("msgA.pre", "PRE", {}, "msgA.text") EXCEPT !.innerText = <<"x=1">>],
     [El("msgA.code", "CODE", {}, "msgA.pre") EXCEPT !.innerText = <<"x=1">>],
     [El("msgA.mail", "A", {}, "msgA.text") EXCEPT !.href = <<"mailto:", "a@b.com">>,
                                                    !.innerText = <<"mail">>],
     \* message B: no time element, a full-size image, a linked image
     El("msgB", "DIV", {"message-body"}, "body"),
     [El("msgB.img", "IMG", {"detail-view-image"}, "msgB") EXCEPT !.src = "https://x/z.png"],
     [El("msgB.link", "A", {"image-element"}, "msgB") EXCEPT !.href = <<"https://x/z.png">>],
     \* message C: time T2, an image, a link carrying the text class
     El("msgC", "DIV", {"message-body"}, "body"),
     [El("msgC.time", "TIME", {}, "msgC") EXCEPT !.timestamp = "T2"],
     [El("msgC.img", "IMG", {"image-element"}, "msgC") EXCEPT !.src = "https://x/y.png"],
     [El("msgC.link", "A", {"text"}, "msgC") EXCEPT !.href = <<"https://wire.com/?q=", "mailto:", "c">>,
                                                    !.innerText = <<"wire">>],
     \* outside any message
     [El("avatar", "IMG", {"image-element"}, "body") EXCEPT !.src = "https://x/a.png"],
     [El("blank", "DIV", {"text"}, "body") EXCEPT !.innerText = <<WS, WS>>],
     [El("label", "SPAN", {}, "body") EXCEPT !.innerText = <<"label">>],
     \* subtrees that are not attached to the document
     El("loose", "DIV", {}, Null),
     [El("loose.span", "SPAN", {}, "loose") EXCEPT !.innerText = <<"gone">>],
     [El("loose.text", "DIV", {"text"}, Null) EXCEPT !.innerText = <<WS, "draft">>],
     [El("loose.code", "CODE", {}, "loose.text") EXCEPT !.innerText = <<"draft">>] >>

NodeIds == {Tree[i].id : i \in 1..Len(Tree)}
NodeTable == [id \in NodeIds |-> Tree[CHOOSE i \in 1..Len(Tree) : Tree[i].id = id]]
Node(id) == NodeTable[id]
DocumentOrder == [i \in 1..Len(Tree) |-> Tree[i].id]

\* Element.closest(selector) for a class selector: the element itself, then its ancestors.
RECURSIVE Closest(_, _)
Closest(ref, cls) ==
  IF ref \in {Null, Document} THEN Null
  ELSE IF cls \in Node(ref).classList THEN ref
  ELSE Closest(Node(ref).parentNode, cls)

RECURSIVE IsDescendant(_, _)
IsDescendant(ref, root) ==
  IF ref \in {Null, Document} THEN FALSE
  ELSE LET p == Node(ref).parentNode IN p = root \/ IsDescendant(p, root)

\* Element.getElementsByTagName(tag): the descendants with that tag, in document order.
GetElementsByTagName(root, tag) ==
  SelectSeq(DocumentOrder, LAMBDA n : Node(n).nodeName = tag /\ IsDescendant(n, root))

(***************************************************************************)
(* String helpers                                                          *)
(***************************************************************************)
RECURSIVE TrimStart(_)
TrimStart(s) == IF s # <<>> /\ Head(s) = WS THEN TrimStart(Tail(s)) ELSE s

RECURSIVE TrimEnd(_)
TrimEnd(s) == IF s # <<>> /\ s[Len(s)] = WS THEN TrimEnd(SubSeq(s, 1, Len(s) - 1)) ELSE s

\* String.prototype.trim
Trim(s) == TrimEnd(TrimStart(s))

\* href.replace(/^mailto:/, '')
ReplaceLeadingMailto(href) ==
  IF href # <<>> /\ Head(href) = "mailto:" THEN Tail(href) ELSE href

\* (window.getSelection() || '').toString()
SelectionToString(selection) == IF selection.object THEN selection.text ELSE EmptyString

\* a || b on strings: the empty string is falsy
OrElse(a, b) == IF a # EmptyString THEN a ELSE b

Reverse(s) == [i \in 1..Len(s) |-> s[Len(s) + 1 - i]]

(***************************************************************************)
(* Menu templates                                                          *)
(***************************************************************************)
Item(type, role, label, enabled, click) ==
  [type |-> type, role |-> role, label |-> label, enabled |-> enabled, click |-> click]

Separator == Item("separator", "none", "", TRUE, "none")
RoleItem(role, label) == Item("normal", role, label, TRUE, "none")
SuggestionItem(suggestion) == Item("normal", "none", suggestion, TRUE, "replaceMisspelling")
NoSuggestionsItem == Item("normal", "none", "No suggestions", FALSE, "none")

InitialTextMenuTemplate ==
  << RoleItem("cut", "menuCut"), RoleItem("copy", "menuCopy"), RoleItem("paste", "menuPaste"),
     Separator, RoleItem("selectAll", "menuSelectAll") >>

\* Array.prototype.unshift
Unshift(template, item) == <<item>> \o template

\* for (const suggestion of list) template.unshift({... label: suggestion})
RECURSIVE UnshiftSuggestions(_, _)
UnshiftSuggestions(template, list) ==
  IF list = <<>> THEN template
  ELSE UnshiftSuggestions(Unshift(template, SuggestionItem(Head(list))), Tail(list))

\* SuggestionOrder with the reversal left out: the loop runs over the list as given
SuggestionOrderAsGiven(suggestions) == suggestions

\* dictionaryParams.suggestions.reverse(): reverses the array in place and returns it
SuggestionOrder(suggestions) == Reverse(suggestions)

\* createTextMenu: the items textMenu is built from, and the caller's suggestion
\* array as the call leaves it.  template is a copy (slice), so the unshifts
\* below never reach the shared textMenuTemplate.
createTextMenu(dictionaryParams) ==
  LET template == textMenuTemplate
      suggestions == dictionaryParams.suggestions
  IN IF dictionaryParams.misspelledWord # ""
     THEN LET withSeparator == Unshift(template, Separator)
          IN IF Len(suggestions) > 0
             THEN LET reversed == SuggestionOrder(suggestions)
                  IN [textMenu |-> UnshiftSuggestions(withSeparator, reversed),
                      suggestions |-> reversed]
             ELSE [textMenu |-> Unshift(withSeparator, NoSuggestionsItem),
                   suggestions |-> suggestions]
     ELSE [textMenu |-> template, suggestions |-> suggestions]

(***************************************************************************)
(* handleContextMenu                                                       *)
(***************************************************************************)
\* the while loop of the last branch: climb until null, the document, or a 'text' element
RECURSIVE FindTextParent(_)
FindTextParent(parentNode) ==
  IF parentNode # Null /\ parentNode # Document /\ ~("text" \in Node(parentNode).classList)
  THEN FindTextParent(Node(parentNode).parentNode)
  ELSE parentNode

\* CopyContextAtEntry with the reset left out
CopyContextKept(previous) == previous

\* copyContext = '' at the top of handleContextMenu
CopyContextAtEntry(previous) == EmptyString

\* What one call does: the new values of the module's variables, the caller's
\* suggestion array, and what happened to the event.  threw marks a TypeError
\* raised by a property access on null; the assignments made before it stay.
handleContextMenu(target, selection, p) ==
  LET element == Node(target)
      start == [copyContext |-> CopyContextAtEntry(copyContext), textMenu |-> textMenu,
                imageMenu |-> imageMenu, suggestions |-> p.dictionarySuggestions,
                defaultPrevented |-> FALSE, popped |-> <<>>, threw |-> FALSE]
      selected == SelectionToString(selection)
  IN IF element.nodeName = "TEXTAREA" \/ element.nodeName = "INPUT"
     THEN LET built == createTextMenu([misspelledWord |-> p.misspelledWord,
                                       suggestions |-> p.dictionarySuggestions])
          IN [start EXCEPT !.defaultPrevented = TRUE, !.textMenu = built.textMenu,
                           !.suggestions = built.suggestions, !.popped = <<"textMenu">>]
     ELSE IF "image-element" \in element.classList \/ "detail-view-image" \in element.classList
     THEN LET elementSource == element.src
              parentElement == Closest(target, "message-body")
          IN IF parentElement = Null
             THEN [start EXCEPT !.defaultPrevented = TRUE, !.threw = TRUE]
             ELSE LET times == GetElementsByTagName(parentElement, "TIME")
                      timestamp == IF times # <<>> THEN Node(times[1]).timestamp
                                   ELSE imageMenu.timestamp
                  IN [start EXCEPT !.defaultPrevented = TRUE,
                                   !.imageMenu = [image |-> elementSource, timestamp |-> timestamp],
                                   !.popped = <<"imageMenu">>]
     ELSE IF element.nodeName = "A"
     THEN [start EXCEPT !.defaultPrevented = TRUE,
                        !.copyContext = ReplaceLeadingMailto(element.href),
                        !.popped = <<"defaultMenu">>]
     ELSE IF "text" \in element.classList
     THEN [start EXCEPT !.defaultPrevented = TRUE,
                        !.copyContext = OrElse(selected, Trim(element.innerText)),
                        !.popped = <<"defaultMenu">>]
     ELSE LET parentNode == FindTextParent(element.parentNode)
          IN IF parentNode = Document THEN start
             ELSE IF parentNode = Null /\ selected = EmptyString
             THEN [start EXCEPT !.defaultPrevented = TRUE, !.threw = TRUE]
             ELSE [start EXCEPT !.defaultPrevented = TRUE,
                                !.copyContext = IF selected # EmptyString THEN selected
                                                ELSE Trim(Node(parentNode).innerText),
                                !.popped = <<"defaultMenu">>]

(***************************************************************************)
(* Inputs of the dispatcher                                                *)
(***************************************************************************)
Dictionary == <<"the", "ten", "tea", "tee">>
SuggestionLists == {SubSeq(Dictionary, 1, n) : n \in 0..MaxSuggestions}
ParamsSet == [misspelledWord : {"", "teh"}, dictionarySuggestions : SuggestionLists]
Selections == { [object |-> FALSE, text |-> EmptyString],
                [object |-> TRUE, text |-> EmptyString],
                [object |-> TRUE, text |-> <<"picked">>] }

NoEvent == [target |-> "none", selection |-> [object |-> FALSE, text |-> EmptyString],
            given |-> [misspelledWord |-> "", dictionarySuggestions |-> <<>>],
            sameParams |-> FALSE, defaultPrevented |-> FALSE, popped |-> <<>>, threw |-> FALSE]

InitMenu ==
  /\ copyContext = EmptyString
  /\ textMenu = <<>>
  /\ textMenuTemplate = InitialTextMenuTemplate
  /\ imageMenu = [image |-> Undefined, timestamp |-> Undefined]
  /\ params = [misspelledWord |-> "", dictionarySuggestions |-> <<>>]
  /\ shown = "none"
  /\ event = NoEvent

\* One contextmenu event: the whole listener runs, then the event stays on
\* record (with the params as given) until the dispatch returns.
Dispatch(target, selection, p, sameParams) ==
  /\ event = NoEvent
  /\ \E r \in {handleContextMenu(target, selection, p)} :
        /\ copyContext' = r.copyContext
        /\ textMenu' = r.textMenu
        /\ imageMenu' = r.imageMenu
        /\ params' = [misspelledWord |-> p.misspelledWord, dictionarySuggestions |-> r.suggestions]
        /\ shown' = IF r.popped = <<>> THEN "none" ELSE r.popped[Len(r.popped)]
        /\ event' = [target |-> target, selection |-> selection, given |-> p,
                     sameParams |-> sameParams, defaultPrevented |-> r.defaultPrevented,
                     popped |-> r.popped, threw |-> r.threw]
  /\ UNCHANGED <<textMenuTemplate, buildVars>>

\* the host emits a contextmenu event with a new params object
ContextMenu ==
  \E target \in NodeIds, selection \in Selections, p \in ParamsSet :
    Dispatch(target, selection, p, FALSE)

\* the same params object is handed in again
ContextMenuSameParams ==
  \E target \in NodeIds, selection \in Selections :
    Dispatch(target, selection, params, TRUE)

\* the listener has returned (or thrown) and the event is released
EventReturn ==
  /\ event # NoEvent
  /\ event' = NoEvent
  /\ UNCHANGED <<copyContext, textMenu, textMenuTemplate, imageMenu, params, shown, buildVars>>

InitBuildIdle ==
  /\ pc = "idle" /\ entry = "none"
  /\ config = [signManually |-> FALSE, certNameApplication |-> Null, certNameInstaller |-> Null]
  /\ files = <<>> /\ original = <<>> /\ locals = <<>>
  /\ error = Null /\ calls = <<>> /\ signIndex = 1

NextMenu == ContextMenu \/ ContextMenuSameParams \/ EventReturn

\* the renderer after the module is loaded; no build is running
MenuStart == InitMenu /\ InitBuildIdle

SpecMenu == MenuStart /\ [][NextMenu]_vars

(***************************************************************************)
(* The macOS packager                                                      *)
(***************************************************************************)
PackageJson == "package.json"
WireJson == "wire.json"
Manifests == {PackageJson, WireJson}

\* How a manifest is serialised on disk.  writeJson(..., {spaces: 2}) always
\* produces "spaces2"; a file somebody else wrote may be laid out differently.
Formats == {"spaces2", "other"}
Truncated == [json |-> [truncated |-> TRUE], format |-> "other"]

PackageJsonValues == { [name |-> "wire-desktop", productName |-> "Wire", version |-> "3.0.0"] }
WireJsonValues == { [name |-> "Wire", version |-> "3.0", buildDir |-> "wrap/build"],
                    [name |-> "WireInternal", version |-> "3.1", buildDir |-> "wrap/build"] }

\* the name and version the env file and the build number give this build
EnvName == "WireBuild"
EnvVersion == "3.0.4242"

NoLocals == [originalPackageJson |-> [unset |-> TRUE], defaultConfig |-> [unset |-> TRUE],
             commonConfig |-> [unset |-> TRUE]]

\* getCommonConfig(envFile, wireJson): defaultConfig is the project descriptor
\* as read from disk, commonConfig the same with the build's overrides merged in.
getCommonConfig(wireJsonContents) ==
  [defaultConfig |-> wireJsonContents.json,
   commonConfig |-> [wireJsonContents.json EXCEPT !.name = EnvName, !.version = EnvVersion]]

\* fs.writeJson(path, value, {spaces: 2}) that succeeds
WrittenJson(value) == [json |-> value, format |-> "spaces2"]

\* {...originalPackageJson, productName: commonConfig.name, version: commonConfig.version}
BuildPackageJson(originalPackageJson, commonConfig) ==
  [originalPackageJson EXCEPT !.productName = commonConfig.name, !.version = commonConfig.version]

inheritEntitlements == "resources/macos/entitlements/child.plist"
mainEntitlements == "resources/macos/entitlements/parent.plist"

filesToSign ==
  << "Frameworks/Electron Framework.framework/Versions/A/Electron Framework",
     "Frameworks/Electron Framework.framework/Versions/A/Libraries/libEGL.dylib",
     "Frameworks/Electron Framework.framework/Versions/A/Libraries/libffmpeg.dylib",
     "Frameworks/Electron Framework.framework/Versions/A/Libraries/libGLESv2.dylib",
     "Frameworks/Electron Framework.framework/Versions/A/Libraries/libswiftshader_libEGL.dylib",
     "Frameworks/Electron Framework.framework/Versions/A/Libraries/libswiftshader_libGLESv2.dylib",
     "Frameworks/Electron Framework.framework/",
     "Frameworks/${name} Helper.app/Contents/MacOS/${name} Helper",
     "Frameworks/${name} Helper.app/",
     "Frameworks/${name} Helper (GPU).app/Contents/MacOS/${name} Helper (GPU)",
     "Frameworks/${name} Helper (GPU).app/",
     "Frameworks/${name} Helper (Plugin).app/Contents/MacOS/${name} Helper (Plugin)",
     "Frameworks/${name} Helper (Plugin).app/",
     "Frameworks/${name} Helper (Renderer).app/Contents/MacOS/${name} Helper (Renderer)",
     "Frameworks/${name} Helper (Renderer).app/",
     "Library/LoginItems/${name} Login Helper.app/Contents/MacOS/${name} Login Helper",
     "Library/LoginItems/${name} Login Helper.app/" >>

\* one entry of the record of external calls
Call(call, tool, identity, entitlements, path, data, ok) ==
  [call |-> call, tool |-> tool, identity |-> identity, entitlements |-> entitlements,
   path |-> path, data |-> data, ok |-> ok]

FsCall(call, path, data, ok) == Call(call, "fs", "", "", <<path>>, data, ok)
ApiCall(call, identity, ok) == Call(call, "api", identity, "", <<>>, "", ok)

\* codesign --deep -fs '<identity>' --entitlements '<entitlements>' '<path>'
Codesign(entitlements, path, ok) ==
  Call("execSync", "codesign", config.certNameApplication, entitlements, path, "", ok)

\* productbuild --component '<appFile>' /Applications --sign '<identity>' '<pkgFile>'
Productbuild(ok) ==
  Call("execSync", "productbuild", config.certNameInstaller, "",
       <<"appFile", "/Applications", "pkgFile">>, "", ok)

InitBuild ==
  /\ entry \in {"buildMacOSWrapper", "manualMacOSSign"}
  /\ config \in [signManually : BOOLEAN, certNameApplication : {Null, "AppCert"},
                 certNameInstaller : {Null, "InstallerCert"}]
  /\ \E pkg \in PackageJsonValues, wire \in WireJsonValues, pkgFormat \in Formats, wireFormat \in Formats :
       files = [f \in Manifests |-> IF f = PackageJson THEN [json |-> pkg, format |-> pkgFormat]
                                    ELSE [json |-> wire, format |-> wireFormat]]
  /\ original = files
  /\ locals = NoLocals
  /\ pc = IF entry = "buildMacOSWrapper" THEN "getCommonConfig" ELSE "manualMacOSSign"
  /\ error = Null
  /\ calls = <<>>
  /\ signIndex = 1

\* AfterGuardedThrow for a try block without its finally
AfterGuardedThrowNoFinally == "done"

\* where control goes when a step inside try { ... } throws: the finally block
AfterGuardedThrow == "restorePackageJson"

\* AfterFailedCommand for an execSync whose failure is ignored
AfterFailedCommandIgnored(next) == next

\* execSync throws when the command exits non-zero; inside buildMacOSWrapper
\* the error reaches the try block around the call of manualMacOSSign
AfterFailedCommand(next) == IF entry = "buildMacOSWrapper" THEN AfterGuardedThrow ELSE "done"

\* manualMacOSSign returns to its caller
AfterManualSign == IF entry = "buildMacOSWrapper" THEN "restorePackageJson" ELSE "done"

\* a write that fails may have touched nothing or have cut the file short
FailedWrite(contents) == {contents, Truncated}

Unguarded(step, ok, next) ==
  /\ pc' = IF ok THEN next ELSE "done"
  /\ error' = IF ok THEN error ELSE step

Guarded(step, ok, next) ==
  /\ pc' = IF ok THEN next ELSE AfterGuardedThrow
  /\ error' = IF ok THEN error ELSE step

ExecSync(ok, next) ==
  /\ pc' = IF ok THEN next ELSE AfterFailedCommand(next)
  /\ error' = IF ok THEN error ELSE "execSync"

\* line 276
GetCommonConfig ==
  /\ pc = "getCommonConfig"
  /\ \E ok \in BOOLEAN :
       /\ Unguarded("getCommonConfig", ok, "readPackageJson")
       /\ locals' = IF ok THEN [locals EXCEPT !.defaultConfig = getCommonConfig(files[WireJson]).defaultConfig,
                                              !.commonConfig = getCommonConfig(files[WireJson]).commonConfig]
                    ELSE locals
       /\ calls' = Append(calls, FsCall("getCommonConfig", WireJson, "", ok))
  /\ UNCHANGED <<menuVars, entry, config, files, original, signIndex>>

\* line 280
ReadPackageJson ==
  /\ pc = "readPackageJson"
  /\ \E ok \in BOOLEAN :
       /\ Unguarded("readJson", ok, "writePackageJson")
       /\ locals' = IF ok THEN [locals EXCEPT !.originalPackageJson = files[PackageJson].json]
                    ELSE locals
       /\ calls' = Append(calls, FsCall("readJson", PackageJson, "", ok))
  /\ UNCHANGED <<menuVars, entry, config, files, original, signIndex>>

\* lines 282-286
WritePackageJson ==
  /\ pc = "writePackageJson"
  /\ \E ok \in BOOLEAN :
       /\ Unguarded("writeJson", ok, "writeWireJson")
       /\ \E contents \in (IF ok THEN {WrittenJson(BuildPackageJson(locals.originalPackageJson,
                                                                    locals.commonConfig))}
                           ELSE FailedWrite(files[PackageJson])) :
            files' = [files EXCEPT ![PackageJson] = contents]
       /\ calls' = Append(calls, FsCall("writeJson", PackageJson, "build", ok))
  /\ UNCHANGED <<menuVars, entry, config, original, locals, signIndex>>

\* line 287, still before the try block
WriteWireJson ==
  /\ pc = "writeWireJson"
  /\ \E ok \in BOOLEAN :
       /\ Unguarded("writeJson", ok, "electronPackager")
       /\ \E contents \in (IF ok THEN {WrittenJson(locals.commonConfig)}
                           ELSE FailedWrite(files[WireJson])) :
            files' = [files EXCEPT ![WireJson] = contents]
       /\ calls' = Append(calls, FsCall("writeJson", WireJson, "build", ok))
  /\ UNCHANGED <<menuVars, entry, config, original, locals, signIndex>>

\* lines 290-298
ElectronPackager ==
  /\ pc = "electronPackager"
  /\ \E ok \in BOOLEAN :
       /\ Guarded("electronPackager", ok,
                  IF config.certNameInstaller # Null THEN "ensureDir" ELSE "restorePackageJson")
       /\ calls' = Append(calls, ApiCall("electronPackager", "", ok))
  /\ UNCHANGED <<menuVars, entry, config, files, original, locals, signIndex>>

\* lines 299-303
EnsureDir ==
  /\ pc = "ensureDir"
  /\ \E ok \in BOOLEAN :
       /\ Guarded("ensureDir", ok, IF config.signManually THEN "manualMacOSSign" ELSE "buildPkg")
       /\ calls' = Append(calls, FsCall("ensureDir", "distDir", "", ok))
  /\ UNCHANGED <<menuVars, entry, config, files, original, locals, signIndex>>

\* lines 306-311
BuildPkg ==
  /\ pc = "buildPkg"
  /\ \E ok \in BOOLEAN :
       /\ Guarded("buildPkg", ok, "restorePackageJson")
       /\ calls' = Append(calls, ApiCall("buildPkg", config.certNameInstaller, ok))
  /\ UNCHANGED <<menuVars, entry, config, files, original, locals, signIndex>>

\* line 331: nothing is signed without an application certificate
ManualMacOSSign ==
  /\ pc = "manualMacOSSign"
  /\ pc' = IF config.certNameApplication # Null THEN "codesignFile" ELSE AfterManualSign
  /\ signIndex' = 1
  /\ UNCHANGED <<menuVars, entry, config, files, original, locals, error, calls>>

\* lines 352-359: one turn of the loop over filesToSign
CodesignFile ==
  /\ pc = "codesignFile"
  /\ \E ok \in BOOLEAN :
       /\ ExecSync(ok, IF signIndex < Len(filesToSign) THEN "codesignFile"
                       ELSE IF config.certNameInstaller # Null THEN "codesignExecutable"
                       ELSE AfterManualSign)
       /\ calls' = Append(calls, Codesign(inheritEntitlements,
                                          <<"appFile", "/Contents/", filesToSign[signIndex]>>, ok))
  /\ signIndex' = IF signIndex < Len(filesToSign) THEN signIndex + 1 ELSE signIndex
  /\ UNCHANGED <<menuVars, entry, config, files, original, locals>>

\* lines 360-363
CodesignExecutable ==
  /\ pc = "codesignExecutable"
  /\ \E ok \in BOOLEAN :
       /\ ExecSync(ok, "codesignApp")
       /\ calls' = Append(calls, Codesign(inheritEntitlements,
                                          <<"appFile", "/Contents/MacOS/", "${name}">>, ok))
  /\ UNCHANGED <<menuVars, entry, config, files, original, locals, signIndex>>

\* lines 364-366
CodesignApp ==
  /\ pc = "codesignApp"
  /\ \E ok \in BOOLEAN :
       /\ ExecSync(ok, "productbuild")
       /\ calls' = Append(calls, Codesign(mainEntitlements, <<"appFile">>, ok))
  /\ UNCHANGED <<menuVars, entry, config, files, original, locals, signIndex>>

\* lines 367-369
ProductBuild ==
  /\ pc = "productbuild"
  /\ \E ok \in BOOLEAN :
       /\ ExecSync(ok, AfterManualSign)
       /\ calls' = Append(calls, Productbuild(ok))
  /\ UNCHANGED <<menuVars, entry, config, files, original, locals, signIndex>>

\* line 317, first statement of the finally block: an error thrown here
\* replaces the one in flight and skips the second write
RestorePackageJson ==
  /\ pc = "restorePackageJson"
  /\ \E ok \in BOOLEAN :
       /\ Unguarded("writeJson", ok, "restoreWireJson")
       /\ \E contents \in (IF ok THEN {WrittenJson(locals.originalPackageJson)}
                           ELSE FailedWrite(files[PackageJson])) :
            files' = [files EXCEPT ![PackageJson] = contents]
       /\ calls' = Append(calls, FsCall("writeJson", PackageJson, "original", ok))
  /\ UNCHANGED <<menuVars, entry, config, original, locals, signIndex>>

\* line 318, then the function returns or rethrows the error in flight
RestoreWireJson ==
  /\ pc = "restoreWireJson"
  /\ \E ok \in BOOLEAN :
       /\ Unguarded("writeJson", ok, "done")
       /\ \E contents \in (IF ok THEN {WrittenJson(locals.defaultConfig)}
                           ELSE FailedWrite(files[WireJson])) :
            files' = [files EXCEPT ![WireJson] = contents]
       /\ calls' = Append(calls, FsCall("writeJson", WireJson, "original", ok))
  /\ UNCHANGED <<menuVars, entry, config, original, locals, signIndex>>

NextBuild ==
  \/ GetCommonConfig \/ ReadPackageJson \/ WritePackageJson \/ WriteWireJson
  \/ ElectronPackager \/ EnsureDir \/ BuildPkg
  \/ ManualMacOSSign \/ CodesignFile \/ CodesignExecutable \/ CodesignApp \/ ProductBuild
  \/ RestorePackageJson \/ RestoreWireJson

\* one call of buildMacOSWrapper or manualMacOSSign; the dispatcher is idle
BuildStart == InitMenu /\ InitBuild

SpecBuild == BuildStart /\ [][NextBuild]_vars

(***************************************************************************)
(* Properties of the dispatcher                                            *)
(***************************************************************************)
Dispatched == event # NoEvent
Target == Node(event.target)

RECURSIVE HasTextAncestor(_)
HasTextAncestor(ref) ==
  IF ref \in {Null, Document} THEN FALSE
  ELSE "text" \in Node(ref).classList \/ HasTextAncestor(Node(ref).parentNode)

\* the first of cases 1-4 the element matches, 0 when it matches none
FirstRule(element) ==
  IF element.nodeName \in {"TEXTAREA", "INPUT"} THEN 1
  ELSE IF element.classList \cap {"image-element", "detail-view-image"} # {} THEN 2
  ELSE IF element.nodeName = "A" THEN 3
  ELSE IF "text" \in element.classList \/ HasTextAncestor(element.parentNode) THEN 4
  ELSE 0

MenuOfRule(rule) ==
  CASE rule = 1 -> <<"textMenu">>
    [] rule = 2 -> <<"imageMenu">>
    [] rule \in {3, 4} -> <<"defaultMenu">>
    [] OTHER -> <<>>

\* C2: in every call preventDefault is called if and only if a menu is popped
\* up, and on an element matching none of cases 1-4 neither happens.
C2_PreventDefaultIffPopup ==
  Dispatched =>
    /\ event.defaultPrevented <=> (event.popped # <<>>)
    /\ FirstRule(Target) = 0 => (~event.defaultPrevented /\ event.popped = <<>>)

\* C3: every call pops up at most one menu, and it is the menu of the first
\* of the rules 1-4 that the target matches (none when it matches none).
C3_FirstMatchingRule ==
  Dispatched =>
    /\ Len(event.popped) <= 1
    /\ event.popped = MenuOfRule(FirstRule(Target))

\* the data-timestamp of the first time element of the clicked element's message
MessageTimestamp(target) ==
  LET times == GetElementsByTagName(Closest(target, "message-body"), "TIME")
  IN IF times = <<>> THEN Undefined ELSE Node(times[1]).timestamp

\* C4: whenever the image menu is popped up, image is the src of the element
\* just clicked and timestamp is the data-timestamp of that element's own
\* message time element, absent when the message has none.
C4_ImageStateFresh ==
  (Dispatched /\ event.popped = <<"imageMenu">>) =>
    /\ imageMenu.image = Target.src
    /\ imageMenu.timestamp = MessageTimestamp(event.target)

EditableWithSuggestions ==
  /\ Dispatched
  /\ Target.nodeName \in {"TEXTAREA", "INPUT"}
  /\ event.given.misspelledWord # ""
  /\ Len(event.given.dictionarySuggestions) > 0

SuggestionItems(list) == [i \in 1..Len(list) |-> SuggestionItem(list[i])]

StandardTemplate ==
  << RoleItem("cut", "menuCut"), RoleItem("copy", "menuCopy"), RoleItem("paste", "menuPaste"),
     Separator, RoleItem("selectAll", "menuSelectAll") >>

\* C5 (as claimed): for an editable target with a misspelled word and a
\* non-empty suggestion list, the text menu is the suggestions in reversed
\* order of the given list, one separator, then the five-entry template.
C5_SuggestionsReversed ==
  EditableWithSuggestions =>
    textMenu = SuggestionItems(Reverse(event.given.dictionarySuggestions))
               \o <<Separator>> \o StandardTemplate

\* C5 (amended): for an editable target with a misspelled word and a non-empty
\* suggestion list, the text menu is the suggestions in the order of the list
\* as it was given, one separator, then the five-entry template, nothing else.
C5_SuggestionsInGivenOrder ==
  EditableWithSuggestions =>
    textMenu = SuggestionItems(event.given.dictionarySuggestions)
               \o <<Separator>> \o StandardTemplate

C5_Witness ==
  /\ EditableWithSuggestions
  /\ Len(event.given.dictionarySuggestions) >= 2
  /\ event.popped = <<"textMenu">>
  /\ Len(textMenu) = Len(event.given.dictionarySuggestions) + 6

\* C7: after every call copyContext depends on that call alone: empty when the
\* call showed the text menu, the image menu or no menu; for an anchor the href
\* without a leading 'mailto:'; otherwise the selection if non-empty, else the
\* trimmed inner text of the target's nearest 'text' element.
C7_CopyContextOfThisCall ==
  Dispatched =>
    copyContext =
      IF event.popped # <<"defaultMenu">> THEN EmptyString
      ELSE IF Target.nodeName = "A"
      THEN (IF Target.href # <<>> /\ Head(Target.href) = "mailto:"
            THEN Tail(Target.href) ELSE Target.href)
      ELSE IF event.selection.object /\ event.selection.text # EmptyString
      THEN event.selection.text
      ELSE Trim(Node(Closest(event.target, "text")).innerText)

C7_Witness ==
  /\ Dispatched
  /\ event.popped = <<"defaultMenu">>
  /\ Target.nodeName = "A"
  /\ Head(Target.href) = "mailto:"
  /\ copyContext = <<"a@b.com">>

\* C10: a call modifies neither textMenuTemplate nor the suggestion list of
\* the params it was given, so a second right-click on an editable target with
\* the same params object builds the same text menu as the first.
C10_TextMenuRepeatable ==
  [][ (event = NoEvent /\ event' # NoEvent) =>
        /\ textMenuTemplate' = StandardTemplate
        /\ params'.dictionarySuggestions = event'.given.dictionarySuggestions
        /\ (event'.sameParams /\ shown = "textMenu" /\ shown' = "textMenu")
             => textMenu' = textMenu ]_vars

(***************************************************************************)
(* Properties of the packager                                              *)
(***************************************************************************)
WrapperDone == pc = "done" /\ entry = "buildMacOSWrapper"

\* the steps inside try { ... }: the packager call and the signing/installer steps
GuardedSteps == {"electronPackager", "ensureDir", "buildPkg", "execSync"}

\* the call returned, or the error leaving it was thrown inside the try block
ReturnedOrGuardedThrow == WrapperDone /\ error \in ({Null} \cup GuardedSteps)

\* C1 (as claimed): after an execution of buildMacOSWrapper that returns or
\* whose packager call (or a later guarded step) throws, both manifests hold
\* exactly the contents they had before the call.
C1_ManifestsIdentical ==
  ReturnedOrGuardedThrow => files = original

\* C1 (amended): after such an execution both manifests hold the JSON value
\* they had before the call, serialised by writeJson with two-space
\* indentation (identical to the old file only if it was serialised that way).
C1_ManifestsRestoredAsJson ==
  ReturnedOrGuardedThrow =>
    \A f \in Manifests : files[f] = [json |-> original[f].json, format |-> "spaces2"]

C1_Witness ==
  /\ WrapperDone
  /\ error = "electronPackager"
  /\ original[PackageJson].format = "other"
  /\ files[PackageJson].json = original[PackageJson].json
  /\ files[WireJson].json = original[WireJson].json

Called(call) == \E i \in 1..Len(calls) : calls[i].call = call
Succeeded(call, tool) ==
  \E i \in 1..Len(calls) : calls[i].call = call /\ calls[i].tool = tool /\ calls[i].ok

\* C6: when the packager call succeeds and an installer certificate name is
\* configured, an installer package has been built (by buildPkg or by
\* productbuild) when the function returns, whatever signManually and the
\* application certificate name are; with no installer certificate name no
\* signing or installer step is invoked.
C6_InstallerBuilt ==
  (WrapperDone /\ Succeeded("electronPackager", "api")) =>
    /\ (config.certNameInstaller # Null /\ error = Null) =>
         (Succeeded("buildPkg", "api") \/ Succeeded("execSync", "productbuild"))
    /\ config.certNameInstaller = Null => (~Called("buildPkg") /\ ~Called("execSync"))

WriteOf(i, f, data) ==
  calls[i].call = "writeJson" /\ calls[i].path = <<f>> /\ calls[i].data = data

\* C8: on every path each manifest that buildMacOSWrapper has overwritten is
\* written back to its original contents before the call ends, also when a
\* later write (of the project descriptor, or the first restoring write) throws.
C8_EveryOverwriteRestored ==
  WrapperDone =>
    \A f \in Manifests :
      \A i \in 1..Len(calls) :
        (WriteOf(i, f, "build") /\ calls[i].ok) =>
          /\ \E j \in (i + 1)..Len(calls) : WriteOf(j, f, "original") /\ calls[j].ok
          /\ files[f].json = original[f].json

ShellCommands == SelectSeq(calls, LAMBDA c : c.call = "execSync")

CommandOf(c) == [tool |-> c.tool, identity |-> c.identity,
                 entitlements |-> c.entitlements, path |-> c.path]

\* the commands manualMacOSSign is to issue under the given certificates
ExpectedCommands ==
  IF config.certNameApplication = Null THEN <<>>
  ELSE [i \in 1..Len(filesToSign) |->
          [tool |-> "codesign", identity |-> config.certNameApplication,
           entitlements |-> "resources/macos/entitlements/child.plist",
           path |-> <<"appFile", "/Contents/", filesToSign[i]>>]]
       \o (IF config.certNameInstaller = Null THEN <<>>
           ELSE << [tool |-> "codesign", identity |-> config.certNameApplication,
                    entitlements |-> "resources/macos/entitlements/child.plist",
                    path |-> <<"appFile", "/Contents/MacOS/", "${name}">>],
                   [tool |-> "codesign", identity |-> config.certNameApplication,
                    entitlements |-> "resources/macos/entitlements/parent.plist",
                    path |-> <<"appFile">>],
                   [tool |-> "productbuild", identity |-> config.certNameInstaller,
                    entitlements |-> "",
                    path |-> <<"appFile", "/Applications", "pkgFile">>] >>)

\* C9: the shell commands issued so far are always the first ones of the
\* fixed sequence (17 paths with the inheriting entitlements, then, with an
\* installer certificate, main executable, app bundle with the parent
\* entitlements, productbuild); only the last command issued can have failed;
\* a call of manualMacOSSign that returns has issued them all; without an
\* application certificate none is issued.
C9_CommandsInOrderUntilFailure ==
  /\ Len(filesToSign) = 17
  /\ Len(ShellCommands) <= Len(ExpectedCommands)
  /\ \A i \in 1..Len(ShellCommands) :
       /\ CommandOf(ShellCommands[i]) = ExpectedCommands[i]
       /\ i < Len(ShellCommands) => ShellCommands[i].ok
  /\ (pc = "done" /\ Called("execSync") /\ ShellCommands[Len(ShellCommands)].ok)
       => Len(ShellCommands) = Len(ExpectedCommands)
  /\ (pc = "done" /\ entry = "manualMacOSSign" /\ error = Null)
       => Len(ShellCommands) = Len(ExpectedCommands)

C9_Witness ==
  /\ pc = "done"
  /\ Len(ShellCommands) = 20
  /\ ShellCommands[20].tool = "productbuild"
  /\ ShellCommands[20].ok

====
